---- MODULE Spec2Model ----
(***************************************************************************)
(* State-machine model of the two demonstration scripts                    *)
(*   Creational-Patterns/Builder.py          (milktea builders, director)  *)
(*   Creational-Patterns/AbstractFactory.py  (car factories, brand booth)  *)
(*                                                                         *)
(* Python objects live in heaps indexed by small integers.  An instance    *)
(* dictionary is a record whose fields are <<>> (attribute absent) or      *)
(* <<v>> (attribute bound to v); attribute lookup falls back to the class  *)
(* attributes, as Python's does.  A call either returns a value or raises; *)
(* `call` holds the most recent call with its outcome.                     *)
(***************************************************************************)
EXTENDS Integers, Sequences, FiniteSets, TLC

VARIABLES
    MilkteaClass,   \* class attributes of Milktea (_topping, _tea, _sugar)
    builders,       \* heap of builder objects
    director,       \* MilkteaDirector._milktea_builder (0: no director yet)
    call,           \* the most recent call: operation, receiver, args, outcome
    prev,           \* the call before the most recent one (kept by SpecSteps)
    hist,           \* the field-setting calls on builder 1 since its last
                    \* reset (kept by SpecSteps)
    factories,      \* heap of car factory objects
    booths,         \* heap of BrandBooth objects
    stdout          \* console lines printed so far

bvars == <<MilkteaClass, builders, director>>
fvars == <<factories, booths, stdout>>
vars == <<MilkteaClass, builders, director, call, prev, hist, factories, booths, stdout>>

-----------------------------------------------------------------------------
(* Bounds of the model *)

MaxBuilders == 1      \* builder objects the script keeps in variables
MaxSteps == 3         \* field-setting calls recorded between two resets
MaxFactories == 2     \* factory objects
MaxBooths == 2        \* booth objects
MaxLines == 4         \* console lines

\* Builders the script holds, and the slot of the builder only the director
\* refers to: one passed as MilkteaDirector(XBuilder()) or
\* change_builder(XBuilder()), or created by make().  That object is freed
\* when the director is given another builder.
HeldIds == 1..MaxBuilders
Private == MaxBuilders + 1
BuilderIds == 1..Private

-----------------------------------------------------------------------------
(* Builder.py: products *)

Classes == {"Signature", "Oolong", "Customized"}

\* price is kept in tenths
NewProduct(cls) ==
    [price |-> CASE cls = "Signature" -> 57
                 [] cls = "Oolong" -> 45
                 [] OTHER -> 70,
     topping |-> <<>>, tea |-> <<>>, sugar |-> <<>>]

\* instance attribute first, then the class attribute
GetAttr(cattrs, p, name) ==
    IF p[name] # <<>> THEN p[name][1] ELSE cattrs[name]

Digit(d) ==
    CASE d = 0 -> "0" [] d = 1 -> "1" [] d = 2 -> "2" [] d = 3 -> "3"
      [] d = 4 -> "4" [] d = 5 -> "5" [] d = 6 -> "6" [] d = 7 -> "7"
      [] d = 8 -> "8" [] d = 9 -> "9"

RECURSIVE Digits(_)
Digits(n) == IF n < 10 THEN Digit(n) ELSE Digits(n \div 10) \o Digit(n % 10)

\* format(int) inside an f-string
IntToStr(n) == IF n < 0 THEN "-" \o Digits(0 - n) ELSE Digits(n)

-----------------------------------------------------------------------------
(* Builder.py: builders.  Every method is a function from the world (the   *)
(* Milktea class attributes and the builder heap) to the world after the   *)
(* call and the call's outcome.                                            *)

ClassName(cls) == cls \o "MilkteaBuilder"

Returned(w, v) == [world |-> w, raised |-> FALSE, ret |-> v]
Raised(w, e) == [world |-> w, raised |-> TRUE, ret |-> e]

\* a method defined with n parameters after self, called with args
ArityError(cls, method, n, args) ==
    IF Len(args) < n
    THEN "TypeError: " \o ClassName(cls) \o "." \o method
             \o "() missing 1 required positional argument"
    ELSE "TypeError: " \o ClassName(cls) \o "." \o method
             \o "() takes " \o IntToStr(n + 1)
             \o (IF n = 0 THEN " positional argument but " ELSE " positional arguments but ")
             \o IntToStr(Len(args) + 1) \o " were given"

\* self._product.<attr>: _product is the instance attribute, else the class
\* attribute, which only CustomizedMilkteaBuilder defines (as None)
ProductLookup(w, b, attr) ==
    IF w.bs[b].product # <<>> THEN [found |-> TRUE, error |-> ""]
    ELSE IF w.bs[b].cls = "Customized"
    THEN [found |-> FALSE,
          error |-> "AttributeError: 'NoneType' object has no attribute '_"
                        \o attr \o "'"]
    ELSE [found |-> FALSE,
          error |-> "AttributeError: '" \o ClassName(w.bs[b].cls)
                        \o "' object has no attribute '_product'"]

NewBuilderObject(cls) == [cls |-> cls, product |-> <<>>]

\* fault: reset() keeps a product that is already there
reset_KeepExisting(w, b, args) ==
    IF w.bs[b].product # <<>> THEN Returned(w, "None")
    ELSE Returned([w EXCEPT !.bs[b].product = <<NewProduct(w.bs[b].cls)>>], "None")

reset(w, b, args) ==
    IF Len(args) # 0 THEN Raised(w, ArityError(w.bs[b].cls, "reset", 0, args))
    ELSE Returned([w EXCEPT !.bs[b].product = <<NewProduct(w.bs[b].cls)>>], "None")

\* fault: a field that is already set keeps its value
SetProductAttr_KeepFirst(w, b, field, v) ==
    IF ~ProductLookup(w, b, field).found
    THEN Raised(w, ProductLookup(w, b, field).error)
    ELSE IF w.bs[b].product[1][field] # <<>> THEN Returned(w, "None")
    ELSE Returned([w EXCEPT !.bs[b].product[1][field] = <<v>>], "None")

\* fault: the assignment binds the class attribute (Milktea._topping = v)
SetProductAttr_OnClass(w, b, field, v) ==
    IF ~ProductLookup(w, b, field).found
    THEN Raised(w, ProductLookup(w, b, field).error)
    ELSE Returned([w EXCEPT !.cattrs[field] = v], "None")

\* self._product._<field> = v
SetProductAttr(w, b, field, v) ==
    IF ~ProductLookup(w, b, field).found
    THEN Raised(w, ProductLookup(w, b, field).error)
    ELSE Returned([w EXCEPT !.bs[b].product[1][field] = <<v>>], "None")

Params(cls) == IF cls = "Customized" THEN 1 ELSE 0

add_topping(w, b, args) ==
    LET cls == w.bs[b].cls IN
    IF Len(args) # Params(cls)
    THEN Raised(w, ArityError(cls, "add_topping", Params(cls), args))
    ELSE SetProductAttr(w, b, "topping",
             CASE cls = "Signature" -> "boba"
               [] cls = "Oolong" -> "grass jelly"
               [] OTHER -> args[1])

add_tea(w, b, args) ==
    LET cls == w.bs[b].cls IN
    IF Len(args) # Params(cls)
    THEN Raised(w, ArityError(cls, "add_tea", Params(cls), args))
    ELSE SetProductAttr(w, b, "tea",
             CASE cls = "Signature" -> "signature tea"
               [] cls = "Oolong" -> "oolong"
               [] OTHER -> args[1])

\* fault: the sugar level is clamped to 0..100
add_sugar_level_Clamped(w, b, args) ==
    LET cls == w.bs[b].cls IN
    IF Len(args) # Params(cls)
    THEN Raised(w, ArityError(cls, "add_sugar_level", Params(cls), args))
    ELSE SetProductAttr(w, b, "sugar",
             CASE cls = "Signature" -> 100
               [] cls = "Oolong" -> 50
               [] OTHER -> IF args[1] < 0 THEN 0
                           ELSE IF args[1] > 100 THEN 100 ELSE args[1])

add_sugar_level(w, b, args) ==
    LET cls == w.bs[b].cls IN
    IF Len(args) # Params(cls)
    THEN Raised(w, ArityError(cls, "add_sugar_level", Params(cls), args))
    ELSE SetProductAttr(w, b, "sugar",
             CASE cls = "Signature" -> 100
               [] cls = "Oolong" -> 50
               [] OTHER -> args[1])

\* the literal text of each f-string up to its first field
Label(cls) ==
    CASE cls = "Signature" -> "Signature milktea:  "
      [] cls = "Oolong" -> "Oolong milktea:     "
      [] OTHER -> "Customized milktea: "

Format(label, topping, tea, sugar) ==
    label \o topping \o " " \o tea \o " " \o IntToStr(sugar)

\* fault: get_product() hands the product over and starts a new one
get_product_ThenReset(w, b, args) ==
    IF Len(args) # 0
    THEN Raised(w, ArityError(w.bs[b].cls, "get_product", 0, args))
    ELSE IF ~ProductLookup(w, b, "topping").found
    THEN Raised(w, ProductLookup(w, b, "topping").error)
    ELSE LET p == w.bs[b].product[1] IN
         Returned(reset(w, b, <<>>).world,
                  Format(Label(w.bs[b].cls),
                         GetAttr(w.cattrs, p, "topping"),
                         GetAttr(w.cattrs, p, "tea"),
                         GetAttr(w.cattrs, p, "sugar")))

get_product(w, b, args) ==
    IF Len(args) # 0
    THEN Raised(w, ArityError(w.bs[b].cls, "get_product", 0, args))
    ELSE IF ~ProductLookup(w, b, "topping").found
    THEN Raised(w, ProductLookup(w, b, "topping").error)
    ELSE LET p == w.bs[b].product[1] IN
         Returned(w, Format(Label(w.bs[b].cls),
                            GetAttr(w.cattrs, p, "topping"),
                            GetAttr(w.cattrs, p, "tea"),
                            GetAttr(w.cattrs, p, "sugar")))

-----------------------------------------------------------------------------
(* Builder.py: director *)

NoBuilder == [cls |-> "none", product |-> <<>>]

\* A builder expression passed to the director: a builder the script holds,
\* or a constructor call whose result nothing else refers to.
Ref(b) == [kind |-> "ref", id |-> b, cls |-> ""]
New(cls) == [kind |-> "new", id |-> Private, cls |-> cls]

\* self._milktea_builder = builder.  The builder only the director referred
\* to loses its last reference.
set_milktea_builder(w, x) ==
    [w EXCEPT !.bs[Private] =
        IF x.kind = "new" THEN NewBuilderObject(x.cls) ELSE NoBuilder]

\* fault: the tea step is left out
make_milktea_SkipTea(w, d) ==
    LET r1 == reset(w, d, <<>>)
        r2 == IF r1.raised THEN r1 ELSE add_topping(r1.world, d, <<>>)
        r4 == IF r2.raised THEN r2 ELSE add_sugar_level(r2.world, d, <<>>)
    IN  IF r4.raised THEN r4 ELSE get_product(r4.world, d, <<>>)

\* the four steps with no arguments, then the rendering; an exception ends
\* the sequence where it is raised
make_milktea(w, d) ==
    LET r1 == reset(w, d, <<>>)
        r2 == IF r1.raised THEN r1 ELSE add_topping(r1.world, d, <<>>)
        r3 == IF r2.raised THEN r2 ELSE add_tea(r2.world, d, <<>>)
        r4 == IF r3.raised THEN r3 ELSE add_sugar_level(r3.world, d, <<>>)
    IN  IF r4.raised THEN r4 ELSE get_product(r4.world, d, <<>>)

\* the builder class make(type) instantiates
MakeClass(type) ==
    IF type = "signature" THEN "Signature"
    ELSE IF type = "oolong" THEN "Oolong"
    ELSE "Customized"

-----------------------------------------------------------------------------
(* AbstractFactory.py *)

FactoryClasses == {"BMWFactory", "TeslaFactory", "CarFactory"}

\* a product object, or None; `maker` is the factory object that returned it
None == [cls |-> "NoneType", maker |-> 0]
Car(cls, f) == [cls |-> cls, maker |-> f]

create_sedan(fs, f) ==
    CASE fs[f] = "BMWFactory" -> Car("BMWM5", f)
      [] fs[f] = "TeslaFactory" -> Car("TeslaModelS", f)
      [] OTHER -> None

\* fault: TeslaFactory.create_SUV copied from BMWFactory
create_SUV_CopyPaste(fs, f) ==
    CASE fs[f] = "BMWFactory" -> Car("BMWX5", f)
      [] fs[f] = "TeslaFactory" -> Car("BMWX5", f)
      [] OTHER -> None

create_SUV(fs, f) ==
    CASE fs[f] = "BMWFactory" -> Car("BMWX5", f)
      [] fs[f] = "TeslaFactory" -> Car("TeslaModelX", f)
      [] OTHER -> None

\* the line each product class prints
HeadLightLine(cls) ==
    CASE cls = "BMWM5" -> "BMW M5:        Turn on head light."
      [] cls = "BMWX5" -> "BMW X5:        Turn on head light."
      [] cls = "TeslaModelS" -> "Tesla Model S: Turn on head light."
      [] cls = "TeslaModelX" -> "Tesla Model X: Turn on head light."

\* obj.turn_on_head_light() with `out` the console so far
turn_on_head_light(out, obj) ==
    IF obj.cls = "NoneType"
    THEN [out |-> out, raised |-> TRUE,
          ret |-> "AttributeError: 'NoneType' object has no attribute 'turn_on_head_light'"]
    ELSE [out |-> Append(out, HeadLightLine(obj.cls)), raised |-> FALSE, ret |-> "None"]

BrandBooth_init(fs, f) == [sedan |-> create_sedan(fs, f), suv |-> create_SUV(fs, f)]

show_head_light(out, booth) ==
    LET r1 == turn_on_head_light(out, booth.sedan)
    IN  IF r1.raised THEN r1 ELSE turn_on_head_light(r1.out, booth.suv)

-----------------------------------------------------------------------------
(* State *)

NoCall == [op |-> "", self |-> 0, args |-> <<>>, ret |-> "", raised |-> FALSE,
           active |-> 0]

World == [cattrs |-> MilkteaClass, bs |-> builders]
Allocated == {b \in BuilderIds : builders[b].cls # "none"}
Held == Allocated \cap HeldIds
FreeIds == HeldIds \ Allocated

\* the record of a call: `active` is the director's builder when it was made
Done(op, self, args, r) ==
    [op |-> op, self |-> self, args |-> args, ret |-> r.ret, raised |-> r.raised,
     active |-> director]

InitBuilderDemo ==
    /\ MilkteaClass = [topping |-> "boba", tea |-> "regular_milktea", sugar |-> 100]
    /\ builders = [b \in BuilderIds |-> NoBuilder]
    /\ director = 0
    /\ hist = <<>>

InitFactoryDemo ==
    /\ factories = <<>>
    /\ booths = <<>>
    /\ stdout = <<>>

Init ==
    /\ InitBuilderDemo
    /\ InitFactoryDemo
    /\ call = NoCall
    /\ prev = NoCall

-----------------------------------------------------------------------------
(* Operations of the builder demo *)

Commit(op, self, args, r) ==
    /\ MilkteaClass' = r.world.cattrs
    /\ builders' = r.world.bs
    /\ call' = Done(op, self, args, r)
    /\ UNCHANGED fvars

\* b = SignatureMilkteaBuilder(), OolongMilkteaBuilder() or
\* CustomizedMilkteaBuilder()
NewBuilder(b, cls) ==
    /\ b \in FreeIds
    /\ b = Cardinality(Held) + 1
    /\ Commit("new", b, <<>>,
              Returned([World EXCEPT !.bs[b] = NewBuilderObject(cls)], "None"))
    /\ UNCHANGED director

Call_reset(b) ==
    /\ b \in Held
    /\ Commit("reset", b, <<>>, reset(World, b, <<>>))
    /\ UNCHANGED director

Call_add_topping(b, args) ==
    /\ b \in Held
    /\ Commit("add_topping", b, args, add_topping(World, b, args))
    /\ UNCHANGED director

Call_add_tea(b, args) ==
    /\ b \in Held
    /\ Commit("add_tea", b, args, add_tea(World, b, args))
    /\ UNCHANGED director

Call_add_sugar_level(b, args) ==
    /\ b \in Held
    /\ Commit("add_sugar_level", b, args, add_sugar_level(World, b, args))
    /\ UNCHANGED director

Call_get_product(b) ==
    /\ b \in Held
    /\ Commit("get_product", b, <<>>, get_product(World, b, <<>>))
    /\ UNCHANGED director

\* director = MilkteaDirector(x)
MilkteaDirector_init(x) ==
    /\ director = 0
    /\ x.id \in Held \cup {Private}
    /\ Commit("MilkteaDirector", 0, <<x>>,
              Returned(set_milktea_builder(World, x), "None"))
    /\ director' = x.id

\* fault: the builder the director leaves is reset
change_builder_ResetsPrevious(x) ==
    /\ director # 0
    /\ x.id \in Held \cup {Private}
    /\ Commit("change_builder", 0, <<x>>,
              Returned(set_milktea_builder(reset(World, director, <<>>).world, x), "None"))
    /\ director' = x.id

change_builder(x) ==
    /\ director # 0
    /\ x.id \in Held \cup {Private}
    /\ Commit("change_builder", 0, <<x>>,
              Returned(set_milktea_builder(World, x), "None"))
    /\ director' = x.id

Call_make_milktea ==
    /\ director # 0
    /\ Commit("make_milktea", 0, <<>>, make_milktea(World, director))
    /\ UNCHANGED director

make(type) ==
    /\ director # 0
    /\ LET x == New(MakeClass(type)) IN
         /\ Commit("make", 0, <<type>>,
                   make_milktea(set_milktea_builder(World, x), x.id))
         /\ director' = x.id

-----------------------------------------------------------------------------
(* Operations of the factory demo *)

FactoryIds == 1..MaxFactories
BoothIds == 1..MaxBooths

FDone(op, self, args, ret, raised) ==
    /\ call' = [op |-> op, self |-> self, args |-> args, ret |-> ret,
                raised |-> raised, active |-> 0]
    /\ UNCHANGED <<bvars, hist, prev>>

\* BMWFactory(), TeslaFactory(), CarFactory()
NewFactory(cls) ==
    /\ Len(factories) < MaxFactories
    /\ factories' = Append(factories, cls)
    /\ FDone("new", Len(factories) + 1, <<>>, "None", FALSE)
    /\ UNCHANGED <<booths, stdout>>

\* BrandBooth(f)
NewBooth(f) ==
    /\ Len(booths) < MaxBooths
    /\ f \in 1..Len(factories)
    /\ booths' = Append(booths, BrandBooth_init(factories, f))
    /\ FDone("BrandBooth", Len(booths) + 1, <<f>>, "None", FALSE)
    /\ UNCHANGED <<factories, stdout>>

Call_show_head_light(k) ==
    /\ k \in 1..Len(booths)
    /\ Len(stdout) + 2 <= MaxLines
    /\ LET r == show_head_light(stdout, booths[k]) IN
         /\ stdout' = r.out
         /\ FDone("show_head_light", k, <<>>, r.ret, r.raised)
    /\ UNCHANGED <<factories, booths>>

-----------------------------------------------------------------------------
(* Inputs and specifications *)

Toppings == {"pudding"}
Teas == {"Oolong"}
Sugars == {10}
Types == {"signature", "oolong", "customized", "Signature"}

ToppingsWide == {"boba", "pudding"}
TeasWide == {"Oolong", "green"}
SugarsWide == {-5, 10, 150}

\* the argument lists a script passes to a step of builder b
StepArgs(b, values) ==
    IF builders[b].cls = "Customized" THEN {<<v>> : v \in values} ELSE {<<>>}

BuilderArgs == {Ref(b) : b \in HeldIds} \cup {New(cls) : cls \in Classes}

\* Builder.py, any script: builders used directly and through one director
Next ==
    \/ \E b \in HeldIds, cls \in Classes : NewBuilder(b, cls) /\ UNCHANGED <<hist, prev>>
    \/ \E b \in HeldIds : Call_reset(b) /\ UNCHANGED <<hist, prev>>
    \/ \E b \in HeldIds : \E a \in StepArgs(b, Toppings) :
           Call_add_topping(b, a) /\ UNCHANGED <<hist, prev>>
    \/ \E b \in HeldIds : \E a \in StepArgs(b, Teas) :
           Call_add_tea(b, a) /\ UNCHANGED <<hist, prev>>
    \/ \E b \in HeldIds : \E a \in StepArgs(b, Sugars) :
           Call_add_sugar_level(b, a) /\ UNCHANGED <<hist, prev>>
    \/ \E b \in HeldIds : Call_get_product(b) /\ UNCHANGED <<hist, prev>>
    \/ \E x \in BuilderArgs : MilkteaDirector_init(x) /\ UNCHANGED <<hist, prev>>
    \/ \E x \in BuilderArgs : change_builder(x) /\ UNCHANGED <<hist, prev>>
    \/ Call_make_milktea /\ UNCHANGED <<hist, prev>>
    \/ \E type \in Types : make(type) /\ UNCHANGED <<hist, prev>>

Spec == Init /\ [][Next]_vars

\* Builder.py, one builder driven step by step.  hist records the
\* field-setting calls that returned since the last reset, prev the call
\* before the most recent one.
Logged(op, args) ==
    /\ Len(hist) < MaxSteps
    /\ hist' = IF call'.raised THEN hist
               ELSE Append(hist, [op |-> op, args |-> args])
    /\ prev' = call

NextSteps ==
    \/ \E cls \in Classes : NewBuilder(1, cls) /\ UNCHANGED hist /\ prev' = call
    \/ Call_reset(1) /\ hist' = <<>> /\ prev' = call
    \/ \E a \in StepArgs(1, ToppingsWide) :
           Call_add_topping(1, a) /\ Logged("add_topping", a)
    \/ \E a \in StepArgs(1, TeasWide) :
           Call_add_tea(1, a) /\ Logged("add_tea", a)
    \/ \E a \in StepArgs(1, SugarsWide) :
           Call_add_sugar_level(1, a) /\ Logged("add_sugar_level", a)
    \/ Call_get_product(1) /\ UNCHANGED hist /\ prev' = call

SpecSteps == Init /\ [][NextSteps]_vars

\* AbstractFactory.py, any script
NextFactory ==
    \/ \E cls \in FactoryClasses : NewFactory(cls)
    \/ \E f \in FactoryIds : NewBooth(f)
    \/ \E k \in BoothIds : Call_show_head_light(k)

SpecFactory == Init /\ [][NextFactory]_vars

-----------------------------------------------------------------------------
(* What the claims are stated with *)

\* what b.get_product() would return in the current state
Obs(b) ==
    LET r == get_product(World, b, <<>>) IN [raised |-> r.raised, ret |-> r.ret]

\* the same in the state after a step
ObsNext(b) ==
    LET r == get_product([cattrs |-> MilkteaClass', bs |-> builders'], b, <<>>)
    IN  [raised |-> r.raised, ret |-> r.ret]

\* the expected texts, written out
LabelText ==
    [Signature |-> "Signature milktea:  ",
     Oolong |-> "Oolong milktea:     ",
     Customized |-> "Customized milktea: "]

DecimalText(s) ==
    CASE s = -5 -> "-5" [] s = 10 -> "10" [] s = 50 -> "50"
      [] s = 100 -> "100" [] s = 150 -> "150"

Description(cls, t, e, s) == LabelText[cls] \o t \o " " \o e \o " " \o DecimalText(s)

DefaultDescription(cls) == LabelText[cls] \o "boba regular_milktea 100"

\* every value a field can hold in this model
AllToppings == {"boba", "pudding", "grass jelly"}
AllTeas == {"regular_milktea", "Oolong", "green", "signature tea", "oolong"}
AllSugars == {-5, 10, 50, 100, 150}

StepOps == {"add_topping", "add_tea", "add_sugar_level"}
DirectorOps == {"MilkteaDirector", "change_builder", "make_milktea", "make"}

-----------------------------------------------------------------------------
\* C1: for every type other than "signature" and "oolong", make(type) returns
\* normally "Customized milktea: boba regular_milktea 100"; no error is raised.
C1_MakeOtherReturnsDefaults ==
    (call.op = "make" /\ call.args[1] \notin {"signature", "oolong"})
        => (~call.raised /\ call.ret = "Customized milktea: boba regular_milktea 100")

\* C2: get_product() on a builder on which reset() was never called raises no
\* error.
C2_GetBeforeResetReturns ==
    (call.op = "get_product" /\ builders[call.self].product = <<>>) => ~call.raised

\* C3: make("signature") and make("oolong") return, whatever the director did
\* before, what the direct sequence reset, add_topping, add_tea,
\* add_sugar_level, get_product returns on a fresh builder of that class; for
\* "signature" that is "Signature milktea:  boba signature tea 100".
DirectSequence(cls) ==
    LET w0 == [cattrs |-> MilkteaClass, bs |-> <<NewBuilderObject(cls)>>]
        w1 == reset(w0, 1, <<>>).world
        w2 == add_topping(w1, 1, <<>>).world
        w3 == add_tea(w2, 1, <<>>).world
        w4 == add_sugar_level(w3, 1, <<>>).world
        r == get_product(w4, 1, <<>>)
    IN  [raised |-> r.raised, ret |-> r.ret]

C3_MakeEqualsDirectSequence ==
    /\ (call.op = "make" /\ call.args = <<"signature">>) =>
           /\ ~call.raised
           /\ call.ret = "Signature milktea:  boba signature tea 100"
           /\ DirectSequence("Signature") = [raised |-> FALSE, ret |-> call.ret]
    /\ (call.op = "make" /\ call.args = <<"oolong">>) =>
           /\ ~call.raised
           /\ DirectSequence("Oolong") = [raised |-> FALSE, ret |-> call.ret]

C3_Witness ==
    /\ call.op = "make" /\ call.args = <<"signature">> /\ ~call.raised
    /\ call.active \in Held
    /\ builders[call.active].cls = "Oolong"
    /\ builders[call.active].product # <<>>

\* C4: on a reset builder, after any sequence of add_topping, add_tea and
\* add_sugar_level calls, get_product() renders for each field the value of
\* the last call for that field since the reset, or the class default when
\* there was none.
LastCall(op) ==
    LET idx == {i \in 1..Len(hist) : hist[i].op = op}
    IN  IF idx = {} THEN 0 ELSE CHOOSE i \in idx : \A j \in idx : j <= i

FixedValue(cls, op) ==
    IF cls = "Signature"
    THEN [add_topping |-> "boba", add_tea |-> "signature tea", add_sugar_level |-> 100][op]
    ELSE [add_topping |-> "grass jelly", add_tea |-> "oolong", add_sugar_level |-> 50][op]

LastValue(cls, op, default) ==
    IF LastCall(op) = 0 THEN default
    ELSE IF cls = "Customized" THEN hist[LastCall(op)].args[1]
    ELSE FixedValue(cls, op)

C4_LastValuePerField ==
    (call.op = "get_product" /\ builders[1].product # <<>>) =>
        /\ ~call.raised
        /\ call.ret = Description(builders[1].cls,
                                  LastValue(builders[1].cls, "add_topping", "boba"),
                                  LastValue(builders[1].cls, "add_tea", "regular_milktea"),
                                  LastValue(builders[1].cls, "add_sugar_level", 100))

C4_Witness ==
    /\ call.op = "get_product" /\ ~call.raised
    /\ builders[1].cls = "Customized"
    /\ Len(hist) = 3
    /\ hist[1].op = "add_topping" /\ hist[3].op = "add_topping"
    /\ hist[2].op = "add_sugar_level"
    /\ hist[1].args # hist[3].args

\* C5: reset() followed immediately by get_product() returns the variant's
\* label followed by the class defaults boba, regular_milktea, 100, whatever
\* was done on the builder before.
C5_ResetThenGetIsDefault ==
    /\ (prev.op = "reset" /\ call.op = "get_product" /\ call.self = prev.self) =>
           /\ ~call.raised
           /\ call.ret = DefaultDescription(builders[call.self].cls)
    /\ call.op = "reset" =>
           Obs(call.self) = [raised |-> FALSE,
                             ret |-> DefaultDescription(builders[call.self].cls)]

C5_Witness ==
    /\ prev.op = "reset" /\ call.op = "get_product" /\ call.self = prev.self
    /\ builders[call.self].cls = "Customized"
    /\ call.ret = "Customized milktea: boba regular_milktea 100"

\* C6: get_product() leaves the product as it is: a second get_product()
\* right after it returns the same string, and a step right after it changes
\* only its own field of what was rendered.
Renders(str, cls, ts, es, ss) ==
    \E t \in ts, e \in es, s \in ss : str = Description(cls, t, e, s)

SameButField(before, after, cls, op) ==
    \E t \in AllToppings, e \in AllTeas, s \in AllSugars :
        /\ before = Description(cls, t, e, s)
        /\ Renders(after, cls,
                   IF op = "add_topping" THEN AllToppings ELSE {t},
                   IF op = "add_tea" THEN AllTeas ELSE {e},
                   IF op = "add_sugar_level" THEN AllSugars ELSE {s})

C6_GetProductKeepsProduct ==
    (prev.op = "get_product" /\ ~prev.raised /\ call.self = prev.self) =>
        /\ call.op = "get_product" => (~call.raised /\ call.ret = prev.ret)
        /\ call.op \in StepOps =>
               /\ ~call.raised
               /\ SameButField(prev.ret, Obs(call.self).ret,
                               builders[call.self].cls, call.op)

C6_Witness ==
    /\ prev.op = "get_product" /\ ~prev.raised
    /\ call.op = "get_product" /\ call.self = prev.self
    /\ builders[call.self].product # <<>>
    /\ builders[call.self].product[1].topping = <<"pudding">>
    /\ builders[call.self].product[1].sugar = <<>>
    /\ call.ret = "Customized milktea: pudding regular_milktea 100"

\* C7: change_builder leaves every builder as it is, the previously active
\* one included, and a later make_milktea() or make() changes no builder but
\* the director's active one: get_product() on a builder the director was
\* switched away from keeps returning the same string.
C7_Step ==
    /\ call'.op = "change_builder" =>
           \A b \in Held : builders'[b] = builders[b] /\ ObsNext(b) = Obs(b)
    /\ call'.op \in {"make_milktea", "make"} =>
           \A b \in Held : b # director' =>
               builders'[b] = builders[b] /\ ObsNext(b) = Obs(b)

C7_SwitchAbandonsProduct == [][C7_Step]_vars

C7_Witness ==
    /\ call.op = "change_builder" /\ call.active \in Held /\ call.active # director
    /\ builders[call.active].cls = "Customized"
    /\ builders[call.active].product # <<>>
    /\ builders[call.active].product[1].topping = <<"pudding">>
    /\ builders[call.active].product[1].tea = <<>>

\* C8: a BrandBooth built from a BMWFactory or a TeslaFactory holds a sedan
\* and an SUV both returned by that factory object and both of its brand, and
\* show_head_light() prints that brand's sedan line and then its SUV line,
\* and nothing else.
BrandOf ==
    [BMWFactory |-> "BMW", TeslaFactory |-> "Tesla", BMWM5 |-> "BMW", BMWX5 |-> "BMW",
     TeslaModelS |-> "Tesla", TeslaModelX |-> "Tesla"]

SedanLine == [BMW |-> "BMW M5:        Turn on head light.",
              Tesla |-> "Tesla Model S: Turn on head light."]
SuvLine == [BMW |-> "BMW X5:        Turn on head light.",
            Tesla |-> "Tesla Model X: Turn on head light."]

Branded(f) == factories[f] \in {"BMWFactory", "TeslaFactory"}

C8_Built ==
    (call.op = "BrandBooth" /\ Branded(call.args[1])) =>
        LET f == call.args[1]
            booth == booths[call.self]
        IN  /\ booth.sedan.maker = f /\ booth.suv.maker = f
            /\ BrandOf[booth.sedan.cls] = BrandOf[factories[f]]
            /\ BrandOf[booth.suv.cls] = BrandOf[factories[f]]

C8_Step ==
    /\ \A k \in 1..Len(booths) : booths'[k] = booths[k]
    /\ \A f \in 1..Len(factories) : factories'[f] = factories[f]
    /\ call'.op = "show_head_light" =>
           LET booth == booths[call'.self] IN
           (booth.sedan.cls # "NoneType" /\ Branded(booth.sedan.maker)) =>
               LET brand == BrandOf[factories[booth.sedan.maker]] IN
               /\ ~call'.raised
               /\ stdout' = stdout \o <<SedanLine[brand], SuvLine[brand]>>

C8_BoothBrandConsistent == []C8_Built /\ [][C8_Step]_vars

C8_Witness ==
    /\ call.op = "show_head_light" /\ ~call.raised
    /\ factories[booths[call.self].sedan.maker] = "TeslaFactory"
    /\ \E f \in 1..Len(factories) : factories[f] = "BMWFactory"
    /\ Len(stdout) = 2

\* C9: on a CustomizedMilkteaBuilder, reset(), add_topping(t), add_tea(e),
\* add_sugar_level(s), get_product() returns "Customized milktea: " followed
\* by t, e and s in decimal, separated by single spaces, for negative s and s
\* above 100 as well.
C9_CustomizedRendersArguments ==
    (/\ call.op = "get_product"
     /\ builders[1].cls = "Customized"
     /\ Len(hist) = 3
     /\ hist[1].op = "add_topping" /\ hist[2].op = "add_tea"
     /\ hist[3].op = "add_sugar_level") =>
        LET t == hist[1].args[1]
            e == hist[2].args[1]
            s == hist[3].args[1]
        IN  /\ ~call.raised
            /\ call.ret = "Customized milktea: " \o t \o " " \o e \o " " \o DecimalText(s)
            /\ (t = "boba" /\ e = "Oolong" /\ s = 10) =>
                   call.ret = "Customized milktea: boba Oolong 10"

C9_Witness ==
    /\ call.op = "get_product"
    /\ builders[1].cls = "Customized"
    /\ Len(hist) = 3
    /\ hist[1].op = "add_topping" /\ hist[1].args = <<"pudding">>
    /\ hist[2].op = "add_tea" /\ hist[2].args = <<"green">>
    /\ hist[3].op = "add_sugar_level" /\ hist[3].args = <<-5>>
    /\ call.ret = "Customized milktea: pudding green -5"

\* C10: a call changes no builder but the one it is made on (for a director
\* call, the director's active builder), changes what get_product() returns
\* on no other builder, and leaves the class defaults boba, regular_milktea,
\* 100, which every reset() goes back to.
Target == IF call'.op \in DirectorOps THEN director' ELSE call'.self

C10_State ==
    /\ MilkteaClass = [topping |-> "boba", tea |-> "regular_milktea", sugar |-> 100]
    /\ \A b \in Allocated :
           LET r == get_product(reset(World, b, <<>>).world, b, <<>>)
           IN  ~r.raised /\ r.ret = DefaultDescription(builders[b].cls)

C10_Step ==
    \A b \in Allocated :
        (b # Target /\ builders'[b].cls # "none") =>
            builders'[b] = builders[b] /\ ObsNext(b) = Obs(b)

C10_BuildersIsolated == []C10_State /\ [][C10_Step]_vars

C10_Witness ==
    /\ call.op = "add_tea" /\ call.self = 1 /\ ~call.raised
    /\ director = Private
    /\ builders[Private].cls = builders[1].cls
    /\ builders[Private].product # <<>>
    /\ builders[Private].product[1].tea = <<>>

====
